---- MODULE Spec2Model ----
(***************************************************************************)
(* Model of the table/state views of poker-server (tables/views.py,        *)
(* tables/models.py).  The database holds Table rows and TableState rows;  *)
(* every view runs as a sequence of autocommit database operations, and    *)
(* several requests run at once, so a handler is a process whose steps are *)
(* its database operations.  The rules engine (poker_core_py) is outside   *)
(* the source tree and is modelled from its documented contract.           *)
(***************************************************************************)
EXTENDS Integers, Sequences, FiniteSets, TLC

\* ---- bounds of the model ----------------------------------------------
MaxReqs == 2     \* requests started in a run
MaxRows == 4     \* TableState rows the requests of a run insert

Procs == {1, 2}        \* request workers running at once
Users == {1, 2, 3}     \* registered users (User primary keys)
TableIds == {1, 2}     \* Table primary keys
UnknownIds == {0}      \* a primary key no Table row has

\* ---- program constants ------------------------------------------------
stack == 1000    \* detail(): stack given to a joining player

\* ---- rules engine parameters (poker_core_py) --------------------------
MaxSeats == 2    \* seats at a table
MinPlayers == 2  \* players needed for a hand

Actions == {"call", "junk"}
Methods == {"GET", "POST"}
Bodies == SUBSET {"action", "since"}
Kinds == {"poll", "act", "join", "reset", "delete"}
NULL == -1       \* TableState.table after its Table is deleted (null=True)

VARIABLES
  tables,    \* Table rows: set of [id, owner]
  states,    \* TableState rows: set of [id, table, data]
  nextId,    \* next primary key of TableState
  base,      \* number of TableState rows the run started with
  prov,      \* history: for row id i, [tbl, via, from] of its insertion
  nreq,      \* requests started so far
  method,    \* per worker: the HTTP method of its request
  body,      \* per worker: the keys of the JSON object its request carries
  pc,        \* per worker: position in its handler
  kind,      \* per worker: the request it serves
  tbl,       \* per worker: table_id of the request
  usr,       \* per worker: request.user.id
  act,       \* per worker: the action of an Act request
  st,        \* per worker: state data held in the handler's local
  rd,        \* per worker: id of the row its last latest_state returned
  rd0,       \* per worker: what the first latest_state of the request returned
  wrote,     \* per worker: ids of the rows the request inserted, in order
  err,       \* per worker: the engine error the request met ("" if none)
  out        \* per worker: the response ("" while running)

vars == <<tables, states, nextId, base, prov, nreq, method, body,
          pc, kind, tbl, usr, act, st, rd, rd0, wrote, err, out>>
dbvars == <<tables, states, nextId, prov>>

\* ---- rules engine (poker_core_py), modelled from its contract ----------
Seated(s) == {s.seats[i].id : i \in 1..Len(s.seats)}

new_game_state == [seats |-> <<>>, turn |-> 0, due |-> FALSE]

seat_player(s, u, stk) ==
  IF u \in Seated(s) THEN [err |-> "PlayerAlreadySeated", val |-> s]
  ELSE IF Len(s.seats) >= MaxSeats THEN [err |-> "TableFull", val |-> s]
  ELSE [err |-> "",
        val |-> [s EXCEPT !.seats = Append(@, [id |-> u, stack |-> stk]),
                          !.due = (s.turn = 0)]]

tick_state(s) ==
  IF s.due
    THEN [s EXCEPT !.due = FALSE,
                   !.turn = IF Len(s.seats) < MinPlayers THEN 0
                            ELSE (s.turn % Len(s.seats)) + 1]
    ELSE s

player_action(s, u, a) ==
  IF s.turn = 0 \/ s.due \/ s.seats[s.turn].id # u
    THEN [err |-> "NotYourTurn", val |-> s]
  ELSE IF a # "call" THEN [err |-> "IllegalAction", val |-> s]
  ELSE [err |-> "", val |-> [s EXCEPT !.due = TRUE]]

devonly_reset_state(s) == new_game_state

\* ---- database helpers --------------------------------------------------
TableExists(t) == \E r \in tables : r.id = t
TableRow(t) == CHOOSE r \in tables : r.id = t

\* TableState.objects.filter(table_id=t)
RowsOf(t) == {r \in states : r.table = t}

\* .order_by('-id')[:1]
LatestRow_oldest(t) == CHOOSE r \in RowsOf(t) : \A q \in RowsOf(t) : r.id <= q.id
LatestRow(t) == CHOOSE r \in RowsOf(t) : \A q \in RowsOf(t) : q.id <= r.id

RowById(i) == CHOOSE r \in states : r.id = i

\* the primary key the database gives a new TableState row
NewId == nextId

\* TableState(table=t, data=d).save() by worker p; via/from are history
Insert(p, t, d, via, from) ==
  /\ nextId <= base + MaxRows
  /\ states' = states \cup {[id |-> NewId, table |-> t, data |-> d]}
  /\ nextId' = nextId + 1
  /\ prov' = Append(prov, [tbl |-> t, via |-> via, from |-> from])
  /\ wrote' = [wrote EXCEPT ![p] = Append(@, NewId)]

Finish_hanging(p, o) ==
  /\ pc' = [pc EXCEPT ![p] = IF o \in {"Redirect", "Response"}
                               THEN "done" ELSE @]
  /\ out' = [out EXCEPT ![p] = o]

Finish(p, o) ==
  /\ pc' = [pc EXCEPT ![p] = "done"]
  /\ out' = [out EXCEPT ![p] = o]

\* Tables are made by index() (lines 28-34); every run starts with the
\* tables of TableIds made, table t by user Owner(t).
Owner(t) == IF t \in Users THEN t ELSE 1

\* A run starts from one of two database states the server reaches: no
\* TableState row at all, or table 1 after its first two Join requests
\* (users 1 and 2, one after the other: lines 52-60 run twice).
SeedData ==
  LET s0 == new_game_state
      s1 == tick_state(seat_player(s0, 1, stack).val)
      s2 == tick_state(seat_player(s1, 2, stack).val)
  IN <<s0, s1, s2>>
SeedVia == <<"new", "join", "join">>
SeedStates ==
  {[id |-> i, table |-> 1, data |-> SeedData[i]] : i \in 1..Len(SeedData)}
SeedProv ==
  [i \in 1..Len(SeedData) |-> [tbl |-> 1, via |-> SeedVia[i], from |-> i - 1]]

InitDb(seeded) ==
  /\ tables = {[id |-> t, owner |-> Owner(t)] : t \in TableIds}
  /\ states = IF seeded THEN SeedStates ELSE {}
  /\ nextId = IF seeded THEN Len(SeedData) + 1 ELSE 1
  /\ prov = IF seeded THEN SeedProv ELSE <<>>
  /\ base = IF seeded THEN Len(SeedData) ELSE 0

Init ==
  /\ \E seeded \in BOOLEAN : InitDb(seeded)
  /\ nreq = 0
  /\ method = [p \in Procs |-> "POST"]
  /\ body = [p \in Procs |-> {}]
  /\ pc = [p \in Procs |-> "idle"]
  /\ kind = [p \in Procs |-> "poll"]
  /\ tbl = [p \in Procs |-> 1]
  /\ usr = [p \in Procs |-> 1]
  /\ act = [p \in Procs |-> "call"]
  /\ st = [p \in Procs |-> new_game_state]
  /\ rd = [p \in Procs |-> 0]
  /\ rd0 = [p \in Procs |-> 0]
  /\ wrote = [p \in Procs |-> <<>>]
  /\ err = [p \in Procs |-> ""]
  /\ out = [p \in Procs |-> ""]

\* ---- a request arrives: get_object_or_404(Table, pk=table_id) ----------
\* lines 41, 87 (for a poll), 95 and 121: the first database operation of
\* every view that names a table.
AfterGet(k) ==
  CASE k = "poll" -> "read2"
    [] k = "delete" -> "delete"
    [] OTHER -> "read"

\* get_object_or_404(Table, pk=t): TRUE when the lookup finds the row
Found_always(t) == TRUE
Found(t) == TableExists(t)

get_table(p, k, t, u, a) ==
  /\ pc[p] \in {"idle", "done"}
  /\ nreq < MaxReqs
  /\ nreq' = nreq + 1
  /\ kind' = [kind EXCEPT ![p] = k]
  /\ tbl' = [tbl EXCEPT ![p] = t]
  /\ usr' = [usr EXCEPT ![p] = u]
  /\ act' = [act EXCEPT ![p] = a]
  /\ st' = [st EXCEPT ![p] = new_game_state]
  /\ rd' = [rd EXCEPT ![p] = 0]
  /\ rd0' = [rd0 EXCEPT ![p] = 0]
  /\ wrote' = [wrote EXCEPT ![p] = <<>>]
  /\ err' = [err EXCEPT ![p] = ""]
  /\ IF Found(t)
       THEN /\ pc' = [pc EXCEPT ![p] = AfterGet(k)]
            /\ out' = [out EXCEPT ![p] = ""]
       ELSE Finish(p, "NotFound")
  /\ UNCHANGED <<dbvars, base>>

\* ---- latest_state(): the query of line 12 ------------------------------
AfterRead(k) ==
  CASE k = "act" -> "action"
    [] k = "join" -> "join"
    [] OTHER -> "reset"

latest_state_query(p) ==
  /\ pc[p] = "read"
  /\ IF RowsOf(tbl[p]) # {}
       THEN /\ st' = [st EXCEPT ![p] = LatestRow(tbl[p]).data]
            /\ rd' = [rd EXCEPT ![p] = LatestRow(tbl[p]).id]
            /\ rd0' = [rd0 EXCEPT ![p] = LatestRow(tbl[p]).id]
            /\ pc' = [pc EXCEPT ![p] = AfterRead(kind[p])]
       ELSE /\ pc' = [pc EXCEPT ![p] = "create"]
            /\ UNCHANGED <<st, rd, rd0>>
  /\ UNCHANGED <<dbvars, method, body, base, nreq, kind, tbl, usr, act, wrote, err, out>>

\* ---- latest_state(): lines 15-20, the log was empty --------------------
latest_state_create(p) ==
  /\ pc[p] = "create"
  /\ IF TableExists(tbl[p])
       THEN /\ Insert(p, tbl[p], new_game_state, "new", 0)
            /\ st' = [st EXCEPT ![p] = new_game_state]
            /\ rd' = [rd EXCEPT ![p] = NewId]
            /\ rd0' = [rd0 EXCEPT ![p] = NewId]
            /\ pc' = [pc EXCEPT ![p] = AfterRead(kind[p])]
            /\ UNCHANGED <<tables, out>>
       ELSE /\ Finish(p, "DoesNotExist")
            /\ UNCHANGED <<dbvars, st, rd, rd0, wrote>>
  /\ UNCHANGED <<method, body, base, nreq, kind, tbl, usr, act, err>>

\* ---- save_state(table, state_data) -------------------------------------
\* The worker's Table object may name a row another request has deleted;
\* the foreign key then refuses the insert.
save_state_overwrite(p, d, via, from) ==
  /\ TableExists(tbl[p])
  /\ states' = (states \ {LatestRow(tbl[p])})
                 \cup {[LatestRow(tbl[p]) EXCEPT !.data = d]}
  /\ wrote' = [wrote EXCEPT ![p] = Append(@, LatestRow(tbl[p]).id)]
  /\ UNCHANGED <<nextId, prov>>

save_state(p, d, via, from) ==
  /\ TableExists(tbl[p])
  /\ Insert(p, tbl[p], d, via, from)

\* ---- detail(): the 'join' branch, lines 53-60 --------------------------
\* line 56: the one engine error the except clause answers
SeatHandled_none(e) == FALSE
SeatHandled(e) == e = "PlayerAlreadySeated"

\* line 58: new_state2 = tick_state(new_state), the one state line 59 saves
join_new_state2_same(new_state) == new_state
join_new_state2(new_state) == tick_state(new_state)

detail_join(p) ==
  /\ pc[p] = "join"
  /\ LET res == seat_player(st[p], usr[p], stack) IN
       /\ err' = [err EXCEPT ![p] = res.err]
       /\ IF res.err # ""
            THEN \* line 55-57; any other ValueError is swallowed and line 58
                 \* then reads new_state, which was never bound
                 /\ Finish(p, IF SeatHandled(res.err) THEN "Redirect"
                              ELSE "UnboundLocalError")
                 /\ UNCHANGED <<dbvars, st, wrote>>
            ELSE IF TableExists(tbl[p])
              THEN /\ save_state(p, join_new_state2(res.val), "join", rd[p])
                   /\ st' = [st EXCEPT ![p] = join_new_state2(res.val)]
                   /\ Finish(p, "Redirect")
                   /\ UNCHANGED tables
              ELSE /\ Finish(p, "IntegrityError")
                   /\ UNCHANGED <<dbvars, st, wrote>>
  /\ UNCHANGED <<method, body, base, nreq, kind, tbl, usr, act, rd, rd0>>

\* ---- detail(): the 'delete' branch, lines 62-69 ------------------------
\* models.py line 13: on_delete=SET_NULL, what deleting Table t does to row r
OnDelete_keep(r, t) == r
OnDelete(r, t) == IF r.table = t THEN [r EXCEPT !.table = NULL] ELSE r

\* line 66: table.owner.id != user.id answers HttpResponseForbidden
IsOwner_any(t, u) == TRUE
IsOwner(t, u) == TableRow(t).owner = u

detail_delete(p) ==
  /\ pc[p] = "delete"
  /\ IF ~TableExists(tbl[p])
       THEN Finish(p, "NotFound") /\ UNCHANGED dbvars
     ELSE IF ~IsOwner(tbl[p], usr[p])
       THEN Finish(p, "Forbidden") /\ UNCHANGED dbvars
     ELSE /\ tables' = tables \ {TableRow(tbl[p])}
          /\ states' = {OnDelete(r, tbl[p]) : r \in states}
          /\ Finish(p, "Redirect")
          /\ UNCHANGED <<nextId, prov>>
  /\ UNCHANGED <<method, body, base, nreq, kind, tbl, usr, act, st, rd, rd0, wrote, err>>

\* ---- state_action(): lines 99-100 --------------------------------------
\* line 99: player_action raises, and lines 100-104 do not run
ActionRaises_never(res) == FALSE
ActionRaises(res) == res.err # ""

state_action_apply(p) ==
  /\ pc[p] = "action"
  /\ LET res == player_action(st[p], usr[p], act[p]) IN
       /\ err' = [err EXCEPT ![p] = res.err]
       /\ IF ActionRaises(res)
            THEN \* the ValueError leaves the view unhandled
                 /\ Finish(p, "ValueError")
                 /\ UNCHANGED <<dbvars, st, wrote>>
            ELSE IF TableExists(tbl[p])
              THEN /\ save_state(p, res.val, "action", rd[p])
                   /\ st' = [st EXCEPT ![p] = res.val]
                   /\ pc' = [pc EXCEPT ![p] = "tick"]
                   /\ UNCHANGED <<tables, out>>
              ELSE /\ Finish(p, "IntegrityError")
                   /\ UNCHANGED <<dbvars, st, wrote>>
  /\ UNCHANGED <<method, body, base, nreq, kind, tbl, usr, act, rd, rd0>>

\* ---- state_action(): lines 101-102 -------------------------------------
\* line 101: new_state2 = tick_state(new_state)
action_new_state2_same(new_state) == new_state
action_new_state2(new_state) == tick_state(new_state)

state_action_tick(p) ==
  /\ pc[p] = "tick"
  /\ IF TableExists(tbl[p])
       THEN /\ save_state(p, action_new_state2(st[p]), "tick",
                         wrote[p][Len(wrote[p])])
            /\ st' = [st EXCEPT ![p] = action_new_state2(st[p])]
            /\ pc' = [pc EXCEPT ![p] = "get2"]
            /\ UNCHANGED <<tables, out>>
       ELSE /\ Finish(p, "IntegrityError")
            /\ UNCHANGED <<dbvars, st, wrote>>
  /\ UNCHANGED <<method, body, base, nreq, kind, tbl, usr, act, rd, rd0, err>>

\* ---- state_since(): lines 90-92, latest_state found a row --------------
\* (the variant that advances the snapshot read and saves it when it changed)
state_since_query_ticking(p) ==
  /\ pc[p] = "read2"
  /\ IF RowsOf(tbl[p]) # {}
       THEN LET s == LatestRow(tbl[p]).data IN
            IF tick_state(s) # s /\ TableExists(tbl[p])
              THEN /\ Insert(p, tbl[p], tick_state(s), "tick", LatestRow(tbl[p]).id)
                   /\ st' = [st EXCEPT ![p] = tick_state(s)]
                   /\ rd' = [rd EXCEPT ![p] = NewId]
                   /\ Finish(p, "Response")
                   /\ UNCHANGED tables
              ELSE /\ st' = [st EXCEPT ![p] = s]
                   /\ rd' = [rd EXCEPT ![p] = LatestRow(tbl[p]).id]
                   /\ Finish(p, "Response")
                   /\ UNCHANGED <<dbvars, wrote>>
       ELSE /\ pc' = [pc EXCEPT ![p] = "create2"]
            /\ UNCHANGED <<dbvars, st, rd, wrote, out>>
  /\ UNCHANGED <<method, body, base, nreq, kind, tbl, usr, act, rd0, err>>

\* (the variant that answers from the snapshot the request already holds)
state_since_query_stale(p) ==
  /\ pc[p] = "read2"
  /\ IF rd0[p] # 0
       THEN /\ st' = [st EXCEPT ![p] = RowById(rd0[p]).data]
            /\ rd' = [rd EXCEPT ![p] = rd0[p]]
            /\ Finish(p, "Response")
       ELSE IF RowsOf(tbl[p]) # {}
         THEN /\ st' = [st EXCEPT ![p] = LatestRow(tbl[p]).data]
              /\ rd' = [rd EXCEPT ![p] = LatestRow(tbl[p]).id]
              /\ Finish(p, "Response")
         ELSE /\ pc' = [pc EXCEPT ![p] = "create2"]
              /\ UNCHANGED <<st, rd, out>>
  /\ UNCHANGED <<dbvars, method, body, base, nreq, kind, tbl, usr, act, rd0, wrote, err>>

state_since_query(p) ==
  /\ pc[p] = "read2"
  /\ IF RowsOf(tbl[p]) # {}
       THEN /\ st' = [st EXCEPT ![p] = LatestRow(tbl[p]).data]
            /\ rd' = [rd EXCEPT ![p] = LatestRow(tbl[p]).id]
            /\ Finish(p, "Response")
       ELSE /\ pc' = [pc EXCEPT ![p] = "create2"]
            /\ UNCHANGED <<st, rd, out>>
  /\ UNCHANGED <<dbvars, method, body, base, nreq, kind, tbl, usr, act, rd0, wrote, err>>

\* ---- state_since(): lines 90-92, latest_state made the first row -------
state_since_create(p) ==
  /\ pc[p] = "create2"
  /\ IF TableExists(tbl[p])
       THEN /\ Insert(p, tbl[p], new_game_state, "new", 0)
            /\ st' = [st EXCEPT ![p] = new_game_state]
            /\ rd' = [rd EXCEPT ![p] = NewId]
            /\ Finish(p, "Response")
            /\ UNCHANGED tables
       ELSE /\ Finish(p, "DoesNotExist")
            /\ UNCHANGED <<dbvars, st, rd, wrote>>
  /\ UNCHANGED <<method, body, base, nreq, kind, tbl, usr, act, rd0, err>>

\* ---- method_reset(): lines 122-124 -------------------------------------
\* (the variant that discards the table's rows and keeps the new one only)
method_reset_discarding(p) ==
  /\ pc[p] = "reset"
  /\ IF TableExists(tbl[p])
       THEN /\ nextId <= base + MaxRows
            /\ states' = (states \ RowsOf(tbl[p]))
                 \cup {[id |-> NewId, table |-> tbl[p],
                        data |-> devonly_reset_state(st[p])]}
            /\ nextId' = nextId + 1
            /\ prov' = Append(prov, [tbl |-> tbl[p], via |-> "reset",
                                     from |-> rd[p]])
            /\ wrote' = [wrote EXCEPT ![p] = Append(@, NewId)]
            /\ st' = [st EXCEPT ![p] = devonly_reset_state(st[p])]
            /\ Finish(p, "Redirect")
            /\ UNCHANGED tables
       ELSE /\ Finish(p, "IntegrityError")
            /\ UNCHANGED <<dbvars, st, wrote>>
  /\ UNCHANGED <<method, body, base, nreq, kind, tbl, usr, act, rd, rd0, err>>

method_reset(p) ==
  /\ pc[p] = "reset"
  /\ IF TableExists(tbl[p])
       THEN /\ save_state(p, devonly_reset_state(st[p]), "reset", rd[p])
            /\ st' = [st EXCEPT ![p] = devonly_reset_state(st[p])]
            /\ Finish(p, "Redirect")
            /\ UNCHANGED tables
       ELSE /\ Finish(p, "IntegrityError")
            /\ UNCHANGED <<dbvars, st, wrote>>
  /\ UNCHANGED <<method, body, base, nreq, kind, tbl, usr, act, rd, rd0, err>>

\* ---- state_action(): line 103, state_since() looks the table up again --
state_since_get(p) ==
  /\ pc[p] = "get2"
  /\ IF TableExists(tbl[p])
       THEN /\ pc' = [pc EXCEPT ![p] = "read2"]
            /\ out' = out
       ELSE Finish(p, "NotFound")
  /\ UNCHANGED <<dbvars, method, body, base, nreq, kind, tbl, usr, act, st, rd, rd0, wrote, err>>

\* ---- state(): lines 106-115 ---------------------------------------------
\* what the view does with a request of method m whose JSON object has the
\* keys b: the view it hands the request to, or the response it returns
state_dispatch_since_first(m, b) ==
  IF m # "POST" THEN "NotAllowed"
  ELSE IF "since" \in b THEN "poll"
  ELSE IF "action" \in b /\ "since" \in b THEN "act"
  ELSE "BadRequest"

state_dispatch(m, b) ==
  IF m # "POST" THEN "NotAllowed"
  ELSE IF "action" \in b /\ "since" \in b THEN "act"
  ELSE IF "since" \in b THEN "poll"
  ELSE "BadRequest"

state(p, m, b, t, u, a) ==
  /\ IF state_dispatch(m, b) \in {"act", "poll"}
       THEN get_table(p, state_dispatch(m, b), t, u, a)
       ELSE /\ pc[p] \in {"idle", "done"}
            /\ nreq < MaxReqs
            /\ nreq' = nreq + 1
            /\ kind' = [kind EXCEPT ![p] = "state"]
            /\ tbl' = [tbl EXCEPT ![p] = t]
            /\ usr' = [usr EXCEPT ![p] = u]
            /\ act' = [act EXCEPT ![p] = a]
            /\ st' = [st EXCEPT ![p] = new_game_state]
            /\ rd' = [rd EXCEPT ![p] = 0]
            /\ rd0' = [rd0 EXCEPT ![p] = 0]
            /\ wrote' = [wrote EXCEPT ![p] = <<>>]
            /\ err' = [err EXCEPT ![p] = ""]
            /\ Finish(p, state_dispatch(m, b))
            /\ UNCHANGED <<dbvars, base>>
  /\ method' = [method EXCEPT ![p] = m]
  /\ body' = [body EXCEPT ![p] = b]

\* detail() and method_reset(): a form POST, which carries no JSON object
form_post(p, k, t, u) ==
  /\ get_table(p, k, t, u, "call")
  /\ method' = [method EXCEPT ![p] = "POST"]
  /\ body' = [body EXCEPT ![p] = {}]

\* The requests the model draws.  A parameter no statement reads takes one
\* value: the user matters to Act, Join and Delete on a table that exists
\* (an unknown table is answered 404 before the user is looked at), the
\* action to such an Act, and the body of a request that is not a POST is
\* never parsed, and the table of a request the state view rejects is never
\* looked up.
AnyId == TableIds \cup UnknownIds

Requests ==
  [k : Kinds \ {"poll", "act", "reset"}, t : TableIds, u : Users]
    \cup [k : Kinds \ {"poll", "act", "reset"}, t : UnknownIds, u : {1}]
    \cup [k : {"reset"}, t : AnyId, u : {1}]

StateRequests ==
  [m : Methods \ {"POST"}, b : {{"action", "since"}}, t : UnknownIds,
   u : {1}, a : {"call"}]
    \cup [m : {"POST"}, b : {{}, {"action"}}, t : {1}, u : {1}, a : {"call"}]
    \cup [m : {"POST"}, b : {{"since"}}, t : AnyId, u : {1}, a : {"call"}]
    \cup [m : {"POST"}, b : {{"action", "since"}}, t : TableIds, u : Users,
          a : Actions]
    \cup [m : {"POST"}, b : {{"action", "since"}}, t : UnknownIds, u : {1},
          a : {"call"}]

Next ==
  \/ \E p \in Procs, r \in Requests : form_post(p, r.k, r.t, r.u)
  \/ \E p \in Procs, r \in StateRequests : state(p, r.m, r.b, r.t, r.u, r.a)
  \/ \E p \in Procs : latest_state_query(p)
  \/ \E p \in Procs : latest_state_create(p)
  \/ \E p \in Procs : detail_join(p)
  \/ \E p \in Procs : detail_delete(p)
  \/ \E p \in Procs : state_action_apply(p)
  \/ \E p \in Procs : state_action_tick(p)
  \/ \E p \in Procs : state_since_get(p)
  \/ \E p \in Procs : state_since_query(p)
  \/ \E p \in Procs : state_since_create(p)
  \/ \E p \in Procs : method_reset(p)

Spec == Init /\ [][Next]_vars

\* The steps of the request worker p is serving.  The server runs a view to
\* its return once it has started it, so a worker whose next step can be
\* taken takes it: weak fairness on every worker's steps.
step(p) ==
  \/ latest_state_query(p)
  \/ latest_state_create(p)
  \/ detail_join(p)
  \/ detail_delete(p)
  \/ state_action_apply(p)
  \/ state_action_tick(p)
  \/ state_since_get(p)
  \/ state_since_query(p)
  \/ state_since_create(p)
  \/ method_reset(p)

FairSpec == Spec /\ \A p \in Procs : WF_vars(step(p))

\* The seeded start is a state of the server: TLC reaches this state from
\* the empty database by two Join requests, one after the other.
SeedReached == base = 0 /\ states = SeedStates /\ prov = SeedProv

\* ---- history read-outs used by the properties --------------------------
Ids == 1..Len(prov)
\* the ids of the rows ever inserted for table t, whatever became of t
LogIds(t) == {i \in Ids : prov[i].tbl = t}
InitialRows(t) == {i \in LogIds(t) : prov[i].via = "new"}
\* the row that preceded row i in its table's log (0: none)
Pred(i) ==
  LET before == {j \in LogIds(prov[i].tbl) : j < i}
  IN IF before = {} THEN 0 ELSE CHOOSE j \in before : \A k \in before : k <= j
Served(p) == pc[p] = "done"
SeatCount(s, u) == Cardinality({i \in 1..Len(s.seats) : s.seats[i].id = u})

\* C1: lazy creation of the initial snapshot is idempotent under races: a
\* table's log never holds two initial snapshots, and holds exactly one once
\* a first access (poll, join, act or reset) has been answered.
C1_OneInitialSnapshot ==
  \A t \in TableIds :
    /\ Cardinality(InitialRows(t)) <= 1
    /\ (\E p \in Procs : Served(p) /\ tbl[p] = t /\ kind[p] # "delete"
                         /\ out[p] \in {"Response", "Redirect"})
         => Cardinality(InitialRows(t)) = 1

\* C2: two concurrent Act requests on one table are serialized: every
\* snapshot they append is derived from the snapshot immediately preceding
\* it in the table's log, and no two of them are successors of one snapshot.
C2_ActsSerialized ==
  (nreq = 2 /\ \A p \in Procs : pc[p] # "idle" /\ kind[p] = "act")
    => \A i \in Ids :
         i > base =>
           /\ prov[i].via # "new" => prov[i].from = Pred(i)
           /\ \A j \in Ids : (j # i /\ prov[j].from = prov[i].from) => prov[i].from = 0

\* C3: no lost update on concurrent joins: once two distinct viewers' join
\* requests against the same empty table have both completed, the latest
\* snapshot of the table has both viewers seated, each exactly once.
C3_BothSeated ==
  \A p, q \in Procs :
    ( /\ p # q /\ base = 0 /\ nreq = 2
      /\ Served(p) /\ Served(q)
      /\ kind[p] = "join" /\ kind[q] = "join"
      /\ tbl[p] = tbl[q] /\ usr[p] # usr[q]
      /\ out[p] = "Redirect" /\ out[q] = "Redirect" )
    => /\ RowsOf(tbl[p]) # {}
       /\ SeatCount(LatestRow(tbl[p]).data, usr[p]) = 1
       /\ SeatCount(LatestRow(tbl[p]).data, usr[q]) = 1

\* the snapshot the request of worker p read first (latest_state, line 12-20)
ReadData(p) == RowById(rd0[p]).data
WroteVia(p) == {prov[wrote[p][k]].via : k \in 1..Len(wrote[p])}

\* an Act request whose action the rules engine rejects on the snapshot read
RejectedAct(p) ==
  /\ Served(p) /\ kind[p] = "act" /\ rd0[p] # 0
  /\ player_action(ReadData(p), usr[p], act[p]).err
       \in {"NotYourTurn", "IllegalAction"}

\* C4 (as claimed): a rejected action leaves the log untouched (the request
\* appends no entry at all) and the caller receives the error.
C4_RejectedAppendsNothing ==
  \A p \in Procs : RejectedAct(p) => out[p] = "ValueError" /\ wrote[p] = <<>>

\* C4 (amended): a rejected action appends no post-action and no post-advance
\* entry; the only entry the request can append is the initial snapshot that
\* latest_state creates when it found the log empty; the caller receives the
\* engine's ValueError.
C4_RejectedAppendsOnlyInitial ==
  \A p \in Procs :
    RejectedAct(p) =>
      /\ out[p] = "ValueError"
      /\ err[p] = player_action(ReadData(p), usr[p], act[p]).err
      /\ WroteVia(p) \subseteq {"new"}
      /\ Len(wrote[p]) <= 1
      /\ Len(wrote[p]) = 1 => rd0[p] = wrote[p][1]

C4_Witness ==
  \E p \in Procs :
    /\ RejectedAct(p) /\ wrote[p] = <<>> /\ out[p] = "ValueError"
    /\ Len(ReadData(p).seats) = 2

\* a Join request by a viewer seated in the snapshot the request read
SeatedJoin(p) ==
  /\ Served(p) /\ kind[p] = "join" /\ rd0[p] # 0
  /\ usr[p] \in Seated(ReadData(p))

\* C5: join is idempotent: a join by a viewer already seated in the latest
\* snapshot is answered as a success (the redirect to play) and appends
\* nothing to the log.
C5_JoinIdempotent ==
  \A p \in Procs : SeatedJoin(p) => out[p] = "Redirect" /\ wrote[p] = <<>>

C5_Witness ==
  \E p \in Procs : SeatedJoin(p) /\ out[p] = "Redirect" /\ rd0[p] = 3

\* C6: a join the rules engine rejects for another reason than 'already
\* seated' (the table is full) ends in a typed rejection, never in an
\* unhandled internal failure, and appends nothing.
C6_TypedRejection ==
  \A p \in Procs :
    ( /\ Served(p) /\ kind[p] = "join" /\ rd0[p] # 0
      /\ seat_player(ReadData(p), usr[p], stack).err = "TableFull" )
    => out[p] = "TableFullError" /\ WroteVia(p) \subseteq {"new"}

\* a successful Act request
SuccessfulAct(p) == Served(p) /\ kind[p] = "act" /\ out[p] = "Response"

\* C7: a successful Act request appends exactly two entries, first the
\* post-action snapshot player_action(latest, viewer, action), then the
\* post-advance snapshot tick_state(post-action); when no other request
\* appended to the table meanwhile, the log is the log read followed by
\* exactly these two entries.
C7_ActAppendsTwo ==
  \A p \in Procs :
    SuccessfulAct(p) =>
      /\ Len(wrote[p]) = 2
      /\ LET a == wrote[p][1]
             b == wrote[p][2]
             res == player_action(ReadData(p), usr[p], act[p])
             others == {i \in LogIds(tbl[p]) : i > rd0[p]} \ {a, b}
         IN /\ rd0[p] < a /\ a < b
            /\ prov[a].tbl = tbl[p] /\ prov[b].tbl = tbl[p]
            /\ res.err = ""
            /\ RowById(a).data = res.val
            /\ RowById(b).data = tick_state(res.val)
            /\ others = {} => Pred(a) = rd0[p] /\ Pred(b) = a
                              /\ \A i \in LogIds(tbl[p]) : i <= b

C7_Witness ==
  \E p \in Procs :
    /\ SuccessfulAct(p) /\ Len(wrote[p]) = 2
    /\ RowById(wrote[p][2]).data # RowById(wrote[p][1]).data

\* C8: a half-applied action is never visible: no request's read of the
\* latest snapshot returns a post-action snapshot whose post-advance
\* successor is not yet persisted, and no Act pass ends leaving its
\* post-action snapshot as the table's latest entry.
C8_NoHalfApplied ==
  \A p \in Procs :
    /\ (rd[p] # 0 /\ prov[rd[p]].via = "action")
         => \E j \in Ids : prov[j].via = "tick" /\ prov[j].from = rd[p]
    /\ (Served(p) /\ kind[p] = "act" /\ wrote[p] # <<>>)
         => LET last == wrote[p][Len(wrote[p])]
            IN ~(prov[last].via = "action" /\ RowsOf(tbl[p]) # {}
                 /\ LatestRow(tbl[p]).id = last)

\* a Poll request that was answered; rd[p] is the row its latest_state gave
PollDone(p) == Served(p) /\ kind[p] = "poll" /\ out[p] = "Response"
PollRead(p) == RowById(rd[p]).data

SeqsOf(t) == {r.id : r \in RowsOf(t)}
MaxOf(S) == CHOOSE m \in S : \A k \in S : k <= m

\* C10 (as claimed): the entries of each table's log carry sequence numbers
\* that are distinct, start at 0 and have no gaps, and latest is the entry
\* with the highest one.
C10_PerTableSequence ==
  \A t \in TableIds :
    /\ Cardinality(RowsOf(t)) = Cardinality(SeqsOf(t))
    /\ SeqsOf(t) = 0..(Cardinality(RowsOf(t)) - 1)
    /\ RowsOf(t) # {} => LatestRow(t).id = MaxOf(SeqsOf(t))

\* C10 (amended): the sequence number of an entry is its primary key, drawn
\* from one counter shared by all tables and starting at 1: the keys of all
\* entries together are distinct and are 1..n without gaps, so within a
\* table they are distinct and totally ordered (but need not start at 0 or
\* be contiguous), and every read of latest returns the table's entry with
\* the highest key.
IdsInOrder ==
  /\ Cardinality(states) = nextId - 1
  /\ {r.id : r \in states} = 1..(nextId - 1)
  /\ \A t \in TableIds : Cardinality(RowsOf(t)) = Cardinality(SeqsOf(t))

ReadsHighest ==
  \A p \in Procs :
    (pc[p] \in {"read", "read2"} /\ pc'[p] # pc[p] /\ RowsOf(tbl[p]) # {})
      => /\ rd'[p] = MaxOf(SeqsOf(tbl[p]))
         /\ st'[p] = RowById(rd'[p]).data

C10_GlobalSequence == IdsInOrder /\ [][IdsInOrder' /\ ReadsHighest]_vars

C10_Witness ==
  \E t \in TableIds, u \in TableIds :
    /\ t # u
    /\ \E i \in SeqsOf(t), j \in SeqsOf(t), k \in SeqsOf(u) : i < k /\ k < j
    /\ \E p \in Procs : kind[p] = "act" /\ tbl[p] = t /\ Len(wrote[p]) = 2

\* C11: the log is append-only: no step changes or removes an entry of a
\* table that still exists; an entry keeps its key and payload for ever and
\* its table while the table exists; the log before a step is a prefix of
\* the log after it.
C11_AppendOnly ==
  [][ /\ \A r \in states :
           \E q \in states' :
             /\ q.id = r.id /\ q.data = r.data
             /\ q.table = r.table \/ ~(\E x \in tables' : x.id = r.table)
      /\ \A t \in TableIds :
           (\E x \in tables' : x.id = t) =>
             /\ RowsOf(t) \subseteq RowsOf(t)'
             /\ \A n \in RowsOf(t)' \ RowsOf(t) :
                  \A o \in RowsOf(t) : o.id < n.id ]_vars

C11_Witness ==
  \E p \in Procs :
    /\ Served(p) /\ kind[p] = "reset" /\ out[p] = "Redirect"
    /\ rd0[p] = 3 /\ Len(wrote[p]) = 1
    /\ {1, 2, 3, wrote[p][1]} \subseteq SeqsOf(tbl[p])

\* a Delete request the owner made and the server carried out
DeleteDone(p) == Served(p) /\ kind[p] = "delete" /\ out[p] = "Redirect"
Persisted(i) == \E r \in states : r.id = i

\* C12 (as claimed): deleting a table discards its whole log: no snapshot
\* that belonged to a deleted table remains in the database.
C12_DeleteDiscardsLog ==
  /\ \A p \in Procs :
       DeleteDone(p) => \A i \in LogIds(tbl[p]) : ~Persisted(i)
  /\ \A t \in TableIds :
       ~TableExists(t) => \A i \in LogIds(t) : ~Persisted(i)

\* C12 (amended): deleting a table detaches its log in the same step that
\* removes the table: no row names a table that is gone, a deleted table has
\* no row, and every snapshot that belonged to it stays in the database with
\* its table reference set to NULL.
C12_DeleteDetachesLog ==
  /\ \A r \in states :
       r.table = NULL \/ \E x \in tables : x.id = r.table
  /\ \A t \in TableIds :
       (~\E x \in tables : x.id = t) =>
         /\ RowsOf(t) = {}
         /\ \A i \in LogIds(t) : \E r \in states : r.id = i /\ r.table = NULL

C12_Witness ==
  \E p \in Procs :
    /\ DeleteDone(p)
    /\ Cardinality(LogIds(tbl[p])) >= 3
    /\ \A i \in LogIds(tbl[p]) : Persisted(i) /\ RowById(i).table = NULL

\* a Reset request that was carried out
ResetDone(p) == Served(p) /\ kind[p] = "reset" /\ out[p] = "Redirect"

\* C13 (as claimed): after a reset the table's log holds none of the entries
\* it held before and consists of the reinitialized state only.
C13_ResetDiscardsLog ==
  \A p \in Procs :
    (ResetDone(p) /\ TableExists(tbl[p])) =>
      /\ wrote[p] # <<>>
      /\ \A r \in RowsOf(tbl[p]) : r.id >= wrote[p][Len(wrote[p])]

\* C13 (amended): a reset appends one entry, devonly_reset_state of the
\* snapshot it read, after the entries the log already held and keeps all of
\* those: the snapshot read is still in the log, with every entry before it.
C13_ResetAppends ==
  \A p \in Procs :
    ResetDone(p) =>
      /\ wrote[p] # <<>>
      /\ LET new == wrote[p][Len(wrote[p])] IN
           /\ Persisted(new) /\ prov[new].via = "reset"
           /\ RowById(new).data = devonly_reset_state(ReadData(p))
           /\ rd0[p] < new
           /\ \A k \in 1..(Len(wrote[p]) - 1) : prov[wrote[p][k]].via = "new"
      /\ \A i \in LogIds(tbl[p]) :
           /\ Persisted(i)
           /\ TableExists(tbl[p]) => RowById(i).table = tbl[p]

C13_Witness ==
  \E p \in Procs :
    /\ ResetDone(p) /\ rd0[p] = 3 /\ TableExists(tbl[p])
    /\ Cardinality(RowsOf(tbl[p])) >= 4

\* C14: read-your-writes: the response of an Act request is computed from a
\* latest snapshot of its table that is the post-advance snapshot the request
\* appended or a later one, and a poll that created the initial snapshot
\* answers from it or from a later one.
C14_ReadYourWrites ==
  \A p \in Procs :
    /\ SuccessfulAct(p) =>
         /\ rd[p] >= wrote[p][Len(wrote[p])]
         /\ prov[rd[p]].tbl = tbl[p]
         /\ st[p] = RowById(rd[p]).data
    /\ (PollDone(p) /\ wrote[p] # <<>>) => rd[p] >= wrote[p][Len(wrote[p])]

C14_Witness ==
  \E p \in Procs :
    SuccessfulAct(p) /\ Len(wrote[p]) = 2 /\ rd[p] = wrote[p][2]

\* the request surface of the five table operations
TableOps == {"poll", "act", "join", "delete", "reset"}
Resolves(t) == \E x \in tables : x.id = t

UnknownUntouched ==
  /\ \A t \in UnknownIds : ~Resolves(t) /\ LogIds(t) = {} /\ RowsOf(t) = {}
  /\ \A p \in Procs :
       (tbl[p] \in UnknownIds /\ kind[p] \in TableOps) =>
         Served(p) /\ out[p] = "NotFound" /\ wrote[p] = <<>> /\ rd[p] = 0

\* C15: a poll, act, join, delete or reset that names a table that does not
\* exist is answered not-found in the step it arrives, appends nothing and
\* leaves tables, snapshots and every log as they were; an identity that was
\* never a table never gets a table or a snapshot.
C15_UnknownTableNoEffect ==
  /\ []UnknownUntouched
  /\ [][ nreq' # nreq =>
           \E p \in Procs :
             /\ pc[p] \in {"idle", "done"}
             /\ \A q \in Procs \ {p} :
                  /\ pc'[q] = pc[q] /\ out'[q] = out[q] /\ tbl'[q] = tbl[q]
                  /\ kind'[q] = kind[q] /\ wrote'[q] = wrote[q]
             /\ (kind'[p] \in TableOps /\ ~Resolves(tbl'[p])) =>
                  /\ pc'[p] = "done" /\ out'[p] = "NotFound"
                  /\ wrote'[p] = <<>>
                  /\ tables' = tables /\ states' = states
                  /\ nextId' = nextId /\ prov' = prov ]_vars

C15_Witness ==
  \E p, q \in Procs :
    /\ DeleteDone(q)
    /\ Served(p) /\ kind[p] = "reset" /\ out[p] = "NotFound"
    /\ tbl[p] = tbl[q] /\ ~TableExists(tbl[p]) /\ wrote[p] = <<>>
    /\ Cardinality(states) >= 3

\* a Join request that seated its viewer
SuccessfulJoin(p) ==
  /\ Served(p) /\ kind[p] = "join" /\ out[p] = "Redirect" /\ err[p] = ""
\* the entries a request appended after the initial snapshot, in order
Appended(p) == SelectSeq(wrote[p], LAMBDA i : prov[i].via # "new")
PostSeat(p) == seat_player(ReadData(p), usr[p], 1000).val

\* C17 (as claimed): a successful join appends the post-seat snapshot and,
\* when the advance changed it, the post-advance snapshot after it.
C17_JoinAppendsSeatThenAdvance ==
  \A p \in Procs :
    SuccessfulJoin(p) =>
      /\ Len(Appended(p)) >= 1
      /\ RowById(Appended(p)[1]).data = PostSeat(p)
      /\ tick_state(PostSeat(p)) # PostSeat(p) =>
           /\ Len(Appended(p)) = 2
           /\ RowById(Appended(p)[2]).data = tick_state(PostSeat(p))

\* C17 (amended): a successful join appends one entry after the snapshot it
\* read: the advanced post-seat snapshot, in which the viewer is seated once,
\* with stack 1000, after the seats the snapshot read already had.
C17_JoinAppendsAdvancedSeat ==
  \A p \in Procs :
    SuccessfulJoin(p) =>
      /\ Len(Appended(p)) = 1
      /\ LET i == Appended(p)[1] IN
           /\ prov[i].via = "join" /\ prov[i].tbl = tbl[p] /\ rd0[p] < i
           /\ Persisted(i)
           /\ RowById(i).data = tick_state(PostSeat(p))
           /\ RowById(i).data.seats =
                Append(ReadData(p).seats, [id |-> usr[p], stack |-> 1000])
           /\ SeatCount(RowById(i).data, usr[p]) = 1

C17_Witness ==
  \E p \in Procs :
    /\ SuccessfulJoin(p) /\ Len(wrote[p]) = 2
    /\ prov[wrote[p][1]].via = "new"
    /\ SeqsOf(tbl[p]) = {wrote[p][1], wrote[p][2]}
    /\ LatestRow(tbl[p]).data.seats = <<[id |-> usr[p], stack |-> 1000]>>

\* C18: only the owner deletes a table: the delete of a viewer who is not
\* the owner is answered Forbidden and leaves the table and every snapshot as
\* they were; the owner's delete removes the table; nothing else removes one.
C18_OnlyOwnerDeletes ==
  [][ /\ \A p \in Procs :
           (pc[p] = "delete" /\ pc'[p] = "done" /\ Resolves(tbl[p])) =>
             IF \E x \in tables : x.id = tbl[p] /\ x.owner = usr[p]
               THEN /\ out'[p] = "Redirect"
                    /\ ~\E x \in tables' : x.id = tbl[p]
               ELSE /\ out'[p] = "Forbidden"
                    /\ tables' = tables /\ states' = states
                    /\ nextId' = nextId /\ prov' = prov
      /\ tables' # tables =>
           \E p \in Procs, x \in tables :
             /\ pc[p] = "delete" /\ pc'[p] = "done"
             /\ x.id = tbl[p] /\ x.owner = usr[p]
             /\ tables' = tables \ {x} ]_vars

C18_Witness ==
  \E p, q \in Procs :
    /\ Served(p) /\ kind[p] = "delete" /\ out[p] = "Forbidden"
    /\ TableExists(tbl[p]) /\ TableRow(tbl[p]).owner # usr[p]
    /\ Cardinality(RowsOf(tbl[p])) >= 3
    /\ DeleteDone(q) /\ tbl[q] # tbl[p] /\ ~TableExists(tbl[q])

\* a request made to the state endpoint, whatever became of it
StateRequest(p) == pc[p] # "idle" /\ kind[p] \in {"state", "poll", "act"}
Untouched(p) == wrote[p] = <<>> /\ rd[p] = 0 /\ rd0[p] = 0

Dispatched ==
  \A p \in Procs :
       StateRequest(p) =>
         /\ method[p] # "POST" =>
              Served(p) /\ out[p] = "NotAllowed" /\ Untouched(p)
         /\ (method[p] = "POST" /\ "since" \notin body[p]) =>
              Served(p) /\ out[p] = "BadRequest" /\ Untouched(p)
         /\ (method[p] = "POST" /\ {"action", "since"} \subseteq body[p]) =>
              kind[p] = "act" /\ out[p] \notin {"NotAllowed", "BadRequest"}
         /\ (method[p] = "POST" /\ "since" \in body[p]
               /\ "action" \notin body[p]) =>
              kind[p] = "poll" /\ out[p] \notin {"NotAllowed", "BadRequest"}
              /\ WroteVia(p) \subseteq {"new"}

\* C19: the state endpoint answers a request that is not a POST with
\* NotAllowed and a POST whose object has no 'since' with BadRequest, in the
\* step the request arrives, without reading, creating or appending a
\* snapshot; an object with 'action' and 'since' is handled as Act and one
\* with 'since' and no 'action' as Poll.
C19_StateDispatch ==
  /\ []Dispatched
  /\ [][ \A p \in Procs :
           (out'[p] \in {"NotAllowed", "BadRequest"}
              /\ (out'[p] # out[p] \/ nreq' # nreq)) =>
             /\ tables' = tables /\ states' = states
             /\ nextId' = nextId /\ prov' = prov ]_vars

C19_Witness ==
  \E p, q \in Procs :
    /\ Served(p) /\ method[p] = "GET" /\ body[p] = {"action", "since"}
    /\ out[p] = "NotAllowed" /\ tbl[p] \in UnknownIds
    /\ Served(q) /\ method[q] = "POST" /\ body[q] = {"action"}
    /\ out[q] = "BadRequest" /\ RowsOf(tbl[q]) = {} /\ TableExists(tbl[q])

\* the outcomes that end a request in failure
Failures ==
  {"NotFound", "DoesNotExist", "IntegrityError", "ValueError",
   "UnboundLocalError", "Forbidden", "NotAllowed", "BadRequest"}
Failed(p) == Served(p) /\ out[p] \in Failures
InFlight(p) == pc[p] \notin {"idle", "done"}
\* the run has inserted all the rows its bound allows
RowsExhausted == nextId > base + MaxRows
\* a worker in flight has a step to take: it waits for no other request
CanStep(p) == InFlight(p) => (ENABLED step(p)) \/ RowsExhausted
\* after a failed request, a next request on its table can start
CanStartAfter(q) ==
  (Failed(q) /\ nreq < MaxReqs) =>
    /\ ENABLED form_post(q, "join", tbl[q], usr[q])
    /\ \A p \in Procs :
         Served(p) => ENABLED state(p, "POST", {"since"}, tbl[q], 1, "call")

\* C16: a failed request never blocks its table: after a request ended in
\* failure a next request on the same table can start, no request in flight
\* waits for another one, and every request that has started reaches a
\* terminal outcome (unless the run's row budget is used up first).
C16_FailureNeverBlocks ==
  /\ [](\A p \in Procs : CanStartAfter(p) /\ CanStep(p))
  /\ \A p \in Procs : InFlight(p) ~> (Served(p) \/ RowsExhausted)

C16_Witness ==
  \E p, q \in Procs :
    /\ Failed(q) /\ kind[q] = "act" /\ out[q] = "ValueError"
    /\ Served(p) /\ kind[p] = "act" /\ out[p] = "Response"
    /\ tbl[p] = tbl[q] /\ rd0[p] = 3 /\ rd0[q] = 3 /\ nreq = MaxReqs

====
